---- MODULE Spec2Model ----
(***************************************************************************)
(* A model of the Cloudant HTTP/2 client (src/index.js) and of the IAM     *)
(* token exchange it uses (src/iam.js): the request/response exchange      *)
(* engine, the concurrent fan-out, and the bearer-token life cycle with    *)
(* its self-rescheduling refresh timer.                                    *)
(*                                                                         *)
(* JavaScript objects are functions from their keys to their values; a    *)
(* key that is not set is not in the DOMAIN.  The clock is not part of the *)
(* state: a timer records the delay it was armed with and may fire once    *)
(* armed, and lapsed tells whether the current instant is past the expiry  *)
(* instant the client holds.                                               *)
(***************************************************************************)
EXTENDS Integers, Sequences, FiniteSets, TLC

(***************************************************************************)
(* Bounds of the model.                                                    *)
(***************************************************************************)
MaxRequests == 2      \* request() invocations in one run
MaxCalls == 2         \* iam() invocations and armed timers alive at once
MaxChunks == 2        \* 'data' events of one stream

(***************************************************************************)
(* Constants of the program.                                               *)
(***************************************************************************)
MIME_FORM_ENCODED == "application/x-www-form-urlencoded"
MIME_JSON == "application/json"
HTTP_GET == "GET"
DEFAULT_PATH == "/"
HTTP2_PATH == ":path"
HTTP2_METHOD == ":method"
HTTP2_CONTENT_TYPE == "content-type"
HTTP2_SET_COOKIE == "set-cookie"
HTTP2_STATUS == ":status"
FailureStatus == 400         \* statusCode < 400 resolves, otherwise rejects
IamFailureStatus == 400      \* res.statusCode >= 400 rejects the exchange
MsPerSecond == 1000
RefreshLeadMs == 60000       \* "a minute before expiry"
TimerMinMs == 1              \* setTimeout: a delay below 1 is set to 1
TimerMaxMs == 2147483647     \* setTimeout: a delay above 2^31-1 is set to 1

\* null, for the fields that hold a string
NULL == "null"
\* null, for the fields that hold an object
Null == [null |-> TRUE]
\* {}
EmptyObject == [k \in {} |-> ""]

(***************************************************************************)
(* Inputs.                                                                 *)
(***************************************************************************)
ApiKeys == {"key1", "key2"}
Chunks == {"{", "}"}
Uuids == {"33a392f2"}

(***************************************************************************)
(* Strings.                                                                *)
(***************************************************************************)
LowerCase == "abcdefghijklmnopqrstuvwxyz"
UpperCase == "ABCDEFGHIJKLMNOPQRSTUVWXYZ"
Digits == "0123456789"

CharAt(s, i) == SubSeq(s, i, i)

Chars(s) == {CharAt(s, i) : i \in 1..Len(s)}

\* the upper-case letter of each lower-case letter
UpperOf == [c \in Chars(LowerCase) |->
              CharAt(UpperCase, CHOOSE i \in 1..26 : CharAt(LowerCase, i) = c)]

\* String.prototype.toUpperCase
RECURSIVE ToUpperCase(_)
ToUpperCase(s) ==
  IF s = "" THEN ""
  ELSE LET c == CharAt(s, 1)
           u == IF c \in DOMAIN UpperOf THEN UpperOf[c] ELSE c
       IN  u \o ToUpperCase(SubSeq(s, 2, Len(s)))

\* String(n) for a number n >= 0
RECURSIVE NumberToString(_)
NumberToString(n) ==
  IF n < 10 THEN CharAt(Digits, n + 1)
  ELSE NumberToString(n \div 10) \o CharAt(Digits, (n % 10) + 1)

(***************************************************************************)
(* Values of a query string or of a body object: a number, a boolean or a  *)
(* string.  An object is the sequence of its <<key, value>> pairs, in      *)
(* insertion order.                                                        *)
(***************************************************************************)
Num(n) == [t |-> "number", n |-> n]
Bool(b) == [t |-> "boolean", b |-> b]
Str(s) == [t |-> "string", s |-> s]
Obj(pairs) == [t |-> "object", o |-> pairs]

\* querystring.escape: every character but A-Za-z0-9 - _ . ! ~ * ' ( ) is
\* percent-encoded
QsUnreserved ==
  Chars(LowerCase) \cup Chars(UpperCase) \cup Chars(Digits) \cup Chars("-_.!~*'()")

QsEscapeChar(c) ==
  IF c \in QsUnreserved
  THEN c
  ELSE CASE c = " " -> "%20"
         [] c = "&" -> "%26"
         [] c = "=" -> "%3D"
         [] c = "/" -> "%2F"
         [] c = "?" -> "%3F"
         [] c = ";" -> "%3B"
         [] OTHER   -> "%25"

RECURSIVE QsEscape(_)
QsEscape(s) ==
  IF s = "" THEN "" ELSE QsEscapeChar(CharAt(s, 1)) \o QsEscape(SubSeq(s, 2, Len(s)))

\* querystring.stringify on one value
QsValue(v) ==
  CASE v.t = "number"  -> NumberToString(v.n)
    [] v.t = "boolean" -> (IF v.b THEN "true" ELSE "false")
    [] v.t = "string"  -> QsEscape(v.s)
    [] OTHER           -> ""

\* querystring.stringify(obj): key=value pairs joined by '&'
RECURSIVE QuerystringStringify(_)
QuerystringStringify(pairs) ==
  IF pairs = <<>> THEN ""
  ELSE LET kv == QsEscape(pairs[1][1]) \o "=" \o QsValue(pairs[1][2])
       IN  IF Len(pairs) = 1 THEN kv
           ELSE kv \o "&" \o QuerystringStringify(Tail(pairs))

\* JSON.stringify on one value
JsonValue(v) ==
  CASE v.t = "number"  -> NumberToString(v.n)
    [] v.t = "boolean" -> (IF v.b THEN "true" ELSE "false")
    [] v.t = "string"  -> "\"" \o v.s \o "\""
    [] OTHER           -> "null"

RECURSIVE JsonMembers(_)
JsonMembers(pairs) ==
  IF pairs = <<>> THEN ""
  ELSE LET kv == "\"" \o pairs[1][1] \o "\":" \o JsonValue(pairs[1][2])
       IN  IF Len(pairs) = 1 THEN kv
           ELSE kv \o "," \o JsonMembers(Tail(pairs))

\* JSON.stringify(obj) of a flat object
JsonStringify(pairs) == "{" \o JsonMembers(pairs) \o "}"

\* JSON.parse over the texts the modelled servers send, which are made of
\* braces: the empty object parses, every other text (the empty text
\* included) throws a SyntaxError
JsonParse(text) ==
  IF text = "{}" THEN [ok |-> TRUE, value |-> Obj(<<>>)]
  ELSE [ok |-> FALSE, value |-> Str("SyntaxError")]

(***************************************************************************)
(* Objects.                                                                *)
(***************************************************************************)
\* o[k] = v
SetKey(o, k, v) == [x \in DOMAIN o \cup {k} |-> IF x = k THEN v ELSE o[x]]

\* delete o[k]
DeleteKey(o, k) == [x \in DOMAIN o \ {k} |-> o[x]]

\* if (o[k]), for a key that holds a string
Truthy(o, k) == k \in DOMAIN o /\ o[k] # ""

\* if (opts.body): an object is truthy, a string is unless it is empty
BodyTruthy(o) == "body" \in DOMAIN o /\ o.body # Str("")

(***************************************************************************)
(* The cookie store.  The jar is the sequence of the name=value pairs it   *)
(* holds; every cookie of the modelled servers has Path=/.                 *)
(***************************************************************************)
\* the name=value part of a Set-Cookie value
RECURSIVE CookiePair(_)
CookiePair(str) ==
  IF str = "" \/ CharAt(str, 1) = ";" THEN ""
  ELSE CharAt(str, 1) \o CookiePair(SubSeq(str, 2, Len(str)))

\* jar.parse(cookieStr, url)
JarParse(j, cookieStr) ==
  IF \E i \in 1..Len(j) : j[i] = CookiePair(cookieStr) THEN j
  ELSE Append(j, CookiePair(cookieStr))

RECURSIVE JarParseAll(_, _)
JarParseAll(j, cookieStrs) ==
  IF cookieStrs = <<>> THEN j
  ELSE JarParseAll(JarParse(j, Head(cookieStrs)), Tail(cookieStrs))

\* jar.getCookieString(url)
RECURSIVE GetCookieString(_)
GetCookieString(j) ==
  IF j = <<>> THEN ""
  ELSE IF Len(j) = 1 THEN j[1]
  ELSE j[1] \o "; " \o GetCookieString(Tail(j))

(***************************************************************************)
(* The request descriptions the callers pass to request().                 *)
(***************************************************************************)
DescAllDbs ==
  ("method" :> "get") @@ ("path" :> "/_all_dbs") @@ ("qs" :> <<<<"limit", Num(5)>>>>)

DescPost ==
  ("method" :> "POST") @@ ("path" :> "/testdb") @@ ("body" :> Obj(<<<<"a", Num(1)>>>>))

Descs == {Null, DescAllDbs, DescPost}

\* the shapes a caller can give a description: the method in either case,
\* absent or empty, or given as the pseudo-header; the path with or without
\* its leading slash, absent or empty; the body absent, a string or an
\* object, under the JSON and the form content type
DescRelativePath == ("path" :> "mydb")
DescPseudoMethod == (HTTP2_METHOD :> "get") @@ (HTTP2_PATH :> "/_all_dbs")
DescMixedCase == ("method" :> "Put") @@ ("path" :> "/a")
DescEmptyFields == ("method" :> "") @@ ("path" :> "")
DescStringBody == ("method" :> "post") @@ ("path" :> "/db") @@ ("body" :> Str("raw"))
DescEmptyBody == ("method" :> "post") @@ ("path" :> "/db") @@ ("body" :> Str(""))
DescFormObject ==
  ("method" :> "post") @@ ("path" :> "/_session")
    @@ (HTTP2_CONTENT_TYPE :> MIME_FORM_ENCODED)
    @@ ("body" :> Obj(<<<<"name", Str("alice")>>, <<"password", Str("s c")>>>>))
DescEmptyQs == ("path" :> "/a") @@ ("qs" :> <<>>)


\* the description auth(name, password) passes to request()
AuthDesc(name, password) ==
  ("method" :> "POST") @@ ("path" :> "/_session")
    @@ (HTTP2_CONTENT_TYPE :> MIME_FORM_ENCODED)
    @@ ("body" :> Str(QuerystringStringify(<<<<"name", Str(name)>>, <<"password", Str(password)>>>>)))

\* the descriptions normalisation is checked on
ShapeDescs ==
  { Null, DescAllDbs, DescPost, DescRelativePath, DescPseudoMethod, DescMixedCase,
    DescEmptyFields, DescStringBody, DescEmptyBody, DescFormObject, DescEmptyQs,
    AuthDesc("alice", "secret") }

(***************************************************************************)
(* The state of one client.                                                *)
(***************************************************************************)
VARIABLES
  closed,                  \* this.client.close() has been called
  ready,                   \* this.ready
  jar,                     \* this.jar
  accessToken,             \* this.accessToken
  accessTokenExpiration,   \* this.accessTokenExpiration
  refreshTimeout,          \* this.refreshTimeout: 0 (null) or a timer handle
  requestId,               \* this.requestId
  uuid,                    \* this.uuid
  exch,                    \* the exchanges issued by request(), in issue order
  settleOrder,             \* the exchanges in the order their promises settled
  batch,                   \* the requests() call
  calls,                   \* the iam() invocations
  timers,                  \* the timers setTimeout has armed
  lapsed,                  \* the instant this.accessTokenExpiration has passed
  debug,                   \* process.env.DEBUG names cloudantclient
  console                  \* the lines written with console.log

vars == <<closed, ready, jar, accessToken, accessTokenExpiration, refreshTimeout,
          requestId, uuid, exch, settleOrder, batch, calls, timers, lapsed,
          debug, console>>

connVars == <<closed>>
credVars == <<accessToken, accessTokenExpiration, refreshTimeout>>
iamVars == <<calls, timers, lapsed>>
reqVars == <<ready, jar, requestId, exch, settleOrder, batch>>

Pending == [state |-> "pending", value |-> Null]
IdleCall == [state |-> "idle", apiKey |-> NULL, autoRefresh |-> FALSE,
             origin |-> NULL, exchange |-> Pending, value |-> Null,
             unhandled |-> FALSE]
NoBatch == [state |-> "none", optsArr |-> <<>>, ids |-> <<>>, result |-> <<>>]

\* constructor
Init ==
  /\ closed = FALSE
  /\ ready = FALSE
  /\ jar = <<>>
  /\ accessToken = NULL
  /\ accessTokenExpiration = 0
  /\ refreshTimeout = 0
  /\ requestId = 1
  /\ uuid \in Uuids
  /\ exch = <<>>
  /\ settleOrder = <<>>
  /\ batch = NoBatch
  /\ calls = [c \in 1..MaxCalls |-> IdleCall]
  /\ timers = {}
  /\ lapsed = TRUE
  /\ debug = FALSE
  /\ console = <<>>

(***************************************************************************)
(* request(opts), up to this.client.request(opts): the headers object the  *)
(* stream is opened with and the body to write.  A null body is held as    *)
(* the empty string: the code tells neither from the other (if (body)).    *)
(***************************************************************************)
\* if (opts.method) { opts[':method'] = opts.method.toUpperCase(); delete }
MethodHeader(o) ==
  IF Truthy(o, "method")
  THEN DeleteKey(SetKey(o, HTTP2_METHOD, ToUpperCase(o["method"])), "method")
  ELSE o

\* if (opts.path) { opts[':path'] = opts.path; delete opts.path }
PathHeader(o) ==
  IF Truthy(o, "path") THEN DeleteKey(SetKey(o, HTTP2_PATH, o["path"]), "path") ELSE o

\* if (!opts[key]) { opts[key] = value }
DefaultHeader(o, k, v) == IF ~Truthy(o, k) THEN SetKey(o, k, v) ELSE o

\* the defaults of :method, :path and content-type
Defaults(o) ==
  DefaultHeader(DefaultHeader(DefaultHeader(o, HTTP2_METHOD, HTTP_GET),
                              HTTP2_PATH, DEFAULT_PATH),
                HTTP2_CONTENT_TYPE, MIME_JSON)

\* a normalisation that never reads the jar
CookieHeaderNever(o, cookieStr) == o

\* if (cookieStr) { opts.cookie = cookieStr }
CookieHeader(o, cookieStr) ==
  IF cookieStr # "" THEN SetKey(o, "cookie", cookieStr) ELSE o

\* a normalisation that appends the separator whether or not there is a
\* query string
QueryStringAlways(o) ==
  IF "qs" \in DOMAIN o
  THEN DeleteKey(SetKey(o, HTTP2_PATH,
                        o[HTTP2_PATH] \o "?" \o QuerystringStringify(o["qs"])), "qs")
  ELSE SetKey(o, HTTP2_PATH, o[HTTP2_PATH] \o "?")

\* if (opts.qs) { opts[':path'] += '?' + querystring.stringify(opts.qs); delete }
QueryString(o) ==
  IF "qs" \in DOMAIN o
  THEN DeleteKey(SetKey(o, HTTP2_PATH,
                        o[HTTP2_PATH] \o "?" \o QuerystringStringify(o["qs"])), "qs")
  ELSE o

\* a normalisation that writes the header whether or not a token is held
BearerHeaderAlways(o, token) == SetKey(o, "authorization", "Bearer " \o token)

\* if (this.accessToken) { opts.authorization = `Bearer ${this.accessToken}` }
BearerHeader(o, token) ==
  IF token # NULL /\ token # "" THEN SetKey(o, "authorization", "Bearer " \o token) ELSE o

\* the body to write: the JSON text of an object, a string as it is
BodyText(o) ==
  IF BodyTruthy(o)
  THEN IF o["body"].t = "object" THEN JsonStringify(o["body"].o) ELSE o["body"].s
  ELSE ""

\* if (opts.body) { ...; delete opts.body }
DeleteBody(o) == IF BodyTruthy(o) THEN DeleteKey(o, "body") ELSE o

\* a request id made of the counter read after its increment
RequestIdHeaderAfterIncrement(o, tag, rid) ==
  SetKey(o, "requestid", tag \o NumberToString(rid + 1))

\* opts.requestid = `${this.uuid}${requestId}`
RequestIdHeader(o, tag, rid) == SetKey(o, "requestid", tag \o NumberToString(rid))

Normalize(desc, j, token, tag, rid) ==
  LET o == BearerHeader(
             QueryString(
               CookieHeader(
                 Defaults(PathHeader(MethodHeader(IF desc = Null THEN EmptyObject ELSE desc))),
                 GetCookieString(j))),
             token)
  IN  [opts |-> RequestIdHeader(DeleteBody(o), tag, rid), body |-> BodyText(o)]

\* this.client.request(opts), req.write(body), req.end(): the exchange as
\* request() leaves it, n being what the normalisation made of the
\* description desc the caller passed.  On a closed session client.request
\* throws, which rejects the promise of request().
Exchange(caller, desc, n, isClosed) ==
  [caller  |-> caller,
   desc    |-> desc,
   opts    |-> n.opts,
   written |-> IF ~isClosed /\ n.body # "" THEN <<n.body>> ELSE <<>>,
   stream  |-> IF isClosed THEN "none" ELSE "open",
   headers |-> Null,
   data    |-> "",
   chunks  |-> 0,
   promise |-> IF isClosed
               THEN [state |-> "rejected", value |-> [code |-> "ERR_HTTP2_GOAWAY_SESSION"]]
               ELSE Pending]

\* the line logRequest writes, the time of the call left out
RequestLine(o, body) ==
  o["requestid"] \o " " \o o[HTTP2_METHOD] \o " " \o o[HTTP2_PATH]
    \o (IF Truthy(o, "cookie") THEN " COOKIE"
        ELSE IF Truthy(o, "authorization") THEN " BEARER" ELSE "")
    \o (IF body # "" THEN " body=" \o NumberToString(Len(body)) ELSE "")

\* a logRequest that strikes the credentials off the headers it logs
LogRequestRedacts(dbg, o, body) ==
  [opts  |-> IF dbg THEN DeleteKey(DeleteKey(o, "cookie"), "authorization") ELSE o,
   body  |-> body,
   lines |-> IF dbg THEN <<RequestLine(o, body)>> ELSE <<>>]

\* logRequest(requestId, opts, body, startTime): the headers object and the
\* body as the call leaves them, and the lines it writes
LogRequest(dbg, o, body) ==
  [opts  |-> o,
   body  |-> body,
   lines |-> IF dbg THEN <<RequestLine(o, body)>> ELSE <<>>]

\* the normalisation n after logRequest has seen it
Logged(dbg, n) ==
  [opts |-> LogRequest(dbg, n.opts, n.body).opts,
   body |-> LogRequest(dbg, n.opts, n.body).body]

\* the lines request() writes for the description desc
RequestLog(dbg, desc, j, token, tag, rid) ==
  LogRequest(dbg, Normalize(desc, j, token, tag, rid).opts,
             Normalize(desc, j, token, tag, rid).body).lines

\* the lines of the requests of one requests() call, in issue order
RECURSIVE RequestsLog(_, _, _, _, _, _)
RequestsLog(dbg, optsArr, j, token, tag, rid) ==
  IF optsArr = <<>> THEN <<>>
  ELSE RequestLog(dbg, Head(optsArr), j, token, tag, rid)
         \o RequestsLog(dbg, Tail(optsArr), j, token, tag, rid + 1)

NewExchange(caller, desc, j, token, tag, rid, isClosed, dbg) ==
  Exchange(caller, desc, Logged(dbg, Normalize(desc, j, token, tag, rid)), isClosed)

\* the exchanges whose promise settled at construction, in issue order
SettledAtIssue(new, first) ==
  SelectSeq([i \in 1..Len(new) |-> first + i - 1],
            LAMBDA id : new[id - first + 1].promise.state # "pending")

\* request(opts)
Request(desc) ==
  /\ requestId <= MaxRequests
  /\ LET e == NewExchange("request", desc, jar, accessToken, uuid, requestId, closed,
                          debug)
     IN  /\ exch' = Append(exch, e)
         /\ settleOrder' = settleOrder \o SettledAtIssue(<<e>>, Len(exch) + 1)
  /\ console' = console \o RequestLog(debug, desc, jar, accessToken, uuid, requestId)
  /\ requestId' = requestId + 1
  /\ UNCHANGED <<closed, ready, jar, batch, uuid, debug>>
  /\ UNCHANGED <<credVars, iamVars>>

\* auth(name, password), up to its await
Auth(name, password) ==
  /\ requestId <= MaxRequests
  /\ LET e == NewExchange("auth", AuthDesc(name, password), jar, accessToken, uuid,
                          requestId, closed, debug)
     IN  /\ exch' = Append(exch, e)
         /\ settleOrder' = settleOrder \o SettledAtIssue(<<e>>, Len(exch) + 1)
  /\ console' = console \o RequestLog(debug, AuthDesc(name, password), jar, accessToken,
                                       uuid, requestId)
  /\ requestId' = requestId + 1
  /\ UNCHANGED <<closed, ready, jar, batch, uuid, debug>>
  /\ UNCHANGED <<credVars, iamVars>>

\* requests(optsArr), up to Promise.allSettled: every request() runs to its
\* end, one after the other, before any response is handled
Requests(optsArr) ==
  /\ batch.state # "waiting"
  /\ requestId + Len(optsArr) - 1 <= MaxRequests
  /\ LET new == [i \in 1..Len(optsArr) |->
                   NewExchange("requests", optsArr[i], jar, accessToken, uuid,
                               requestId + i - 1, closed, debug)]
     IN  /\ exch' = exch \o new
         /\ settleOrder' = settleOrder \o SettledAtIssue(new, Len(exch) + 1)
         /\ batch' = [state |-> "waiting",
                      optsArr |-> optsArr,
                      ids |-> [i \in 1..Len(optsArr) |-> Len(exch) + i],
                      result |-> <<>>]
  /\ console' = console \o RequestsLog(debug, optsArr, jar, accessToken, uuid, requestId)
  /\ requestId' = requestId + Len(optsArr)
  /\ UNCHANGED <<closed, ready, jar, uuid, debug>>
  /\ UNCHANGED <<credVars, iamVars>>

(***************************************************************************)
(* The stream events of one exchange.  The transport delivers 'response'   *)
(* once, then 'data' events, then 'end'; 'error' can come at any point of  *)
(* an open stream.  'end' and 'error' close the stream: no event follows,  *)
(* and what the handlers had accumulated in headers and data, which        *)
(* nothing reads any more, is dropped from the state.                      *)
(***************************************************************************)
ResponseHeader(sc, ct, cs) ==
  (HTTP2_STATUS :> sc) @@ (HTTP2_CONTENT_TYPE :> ct)
    @@ (IF cs # <<>> THEN (HTTP2_SET_COOKIE :> cs) ELSE EmptyObject)

\* the response headers the modelled servers send
ResponseHeaders ==
  { ResponseHeader(200, MIME_JSON, <<>>),
    ResponseHeader(200, "text/plain", <<>>),
    ResponseHeader(200, MIME_JSON, <<"AuthSession=xyz; Path=/">>),
    ResponseHeader(400, MIME_JSON, <<>>),
    ResponseHeader(404, "text/plain", <<>>) }

\* the response headers of servers that set cookies: a session cookie with
\* a success, another cookie with a failure, and a success with none
SessionResponseHeaders ==
  { ResponseHeader(200, MIME_JSON, <<"AuthSession=xyz; Path=/">>),
    ResponseHeader(401, MIME_JSON, <<"Flash=denied; Path=/">>),
    ResponseHeader(200, MIME_JSON, <<>>) }

StreamError == [code |-> "ERR_HTTP2_STREAM_ERROR"]

\* resolve(v) and reject(v) settle a pending promise and leave a settled one
Resolve(p, v) == IF p.state = "pending" THEN [state |-> "fulfilled", value |-> v] ELSE p
Reject(p, v) == IF p.state = "pending" THEN [state |-> "rejected", value |-> v] ELSE p

\* the exchanges settled by this step, added to the order of settlement
NoteSettled(i, p) ==
  IF exch[i].promise.state = "pending" /\ p.state # "pending"
  THEN Append(settleOrder, i) ELSE settleOrder

\* a response handler that keeps the cookies of successful responses only
IngestOnSuccess(j, h) ==
  IF HTTP2_SET_COOKIE \in DOMAIN h /\ Len(h[HTTP2_SET_COOKIE]) > 0
     /\ h[HTTP2_STATUS] < FailureStatus
  THEN JarParseAll(j, h[HTTP2_SET_COOKIE])
  ELSE j

\* the response handler forwards each Set-Cookie value to the jar
Ingest(j, h) ==
  IF HTTP2_SET_COOKIE \in DOMAIN h /\ Len(h[HTTP2_SET_COOKIE]) > 0
  THEN JarParseAll(j, h[HTTP2_SET_COOKIE])
  ELSE j

\* a response handler that, having fed the jar, rewrites the Cookie header
\* of the other exchanges whose stream is open
OnResponseRestamps(i, h) ==
  /\ i \in 1..Len(exch)
  /\ exch[i].stream = "open"
  /\ exch[i].headers = Null
  /\ exch' = [k \in DOMAIN exch |->
                IF k = i THEN [exch[k] EXCEPT !.headers = h]
                ELSE IF exch[k].stream = "open"
                     THEN [exch[k] EXCEPT
                             !.opts = CookieHeader(@, GetCookieString(Ingest(jar, h)))]
                     ELSE exch[k]]
  /\ jar' = Ingest(jar, h)
  /\ UNCHANGED <<closed, ready, requestId, uuid, debug, console, settleOrder, batch>>
  /\ UNCHANGED <<credVars, iamVars>>

\* req.on('response', ...)
OnResponse(i, h) ==
  /\ i \in 1..Len(exch)
  /\ exch[i].stream = "open"
  /\ exch[i].headers = Null
  /\ exch' = [exch EXCEPT ![i].headers = h]
  /\ jar' = Ingest(jar, h)
  /\ UNCHANGED <<closed, ready, requestId, uuid, debug, console, settleOrder, batch>>
  /\ UNCHANGED <<credVars, iamVars>>

\* req.on('data', ...)
OnData(i, chunk) ==
  /\ i \in 1..Len(exch)
  /\ exch[i].stream = "open"
  /\ exch[i].headers # Null
  /\ exch[i].chunks < MaxChunks
  /\ exch' = [exch EXCEPT ![i].data = @ \o chunk, ![i].chunks = @ + 1]
  /\ UNCHANGED <<closed, ready, jar, requestId, uuid, debug, console, settleOrder, batch>>
  /\ UNCHANGED <<credVars, iamVars>>

\* the end handler of an earlier revision, which resolved whatever the status
EndHandlerResolvesAlways(e) ==
  LET isJson == HTTP2_CONTENT_TYPE \in DOMAIN e.headers
                  /\ e.headers[HTTP2_CONTENT_TYPE] = MIME_JSON
      parsed == JsonParse(e.data)
      retval == [statusCode |-> e.headers[HTTP2_STATUS], headers |-> e.headers,
                 data |-> IF isJson THEN parsed.value ELSE Str(e.data)]
  IN  IF isJson /\ ~parsed.ok
      THEN [promise |-> e.promise, threw |-> TRUE]
      ELSE [promise |-> Resolve(e.promise, retval), threw |-> FALSE]

\* the body of req.on('end', ...): the promise it leaves, and whether it
\* threw before it reached resolve or reject
EndHandler(e) ==
  LET statusCode == e.headers[HTTP2_STATUS]
      isJson == HTTP2_CONTENT_TYPE \in DOMAIN e.headers
                  /\ e.headers[HTTP2_CONTENT_TYPE] = MIME_JSON
      parsed == JsonParse(e.data)
      data == IF isJson THEN parsed.value ELSE Str(e.data)
      retval == [statusCode |-> statusCode, headers |-> e.headers, data |-> data]
  IN  IF isJson /\ ~parsed.ok
      THEN [promise |-> e.promise, threw |-> TRUE]
      ELSE IF statusCode < FailureStatus
           THEN [promise |-> Resolve(e.promise, retval), threw |-> FALSE]
           ELSE [promise |-> Reject(e.promise, retval), threw |-> FALSE]

\* logResponse(requestId, statusCode, length, startTime): the lines it
\* writes, the times left out
LogResponse(dbg, rid, statusCode, length) ==
  IF dbg
  THEN <<rid \o " " \o NumberToString(statusCode) \o " " \o NumberToString(length)>>
  ELSE <<>>

\* req.on('end', ...), and the rest of auth() when its await returns
OnEnd(i) ==
  /\ i \in 1..Len(exch)
  /\ exch[i].stream = "open"
  /\ exch[i].headers # Null
  /\ LET r == EndHandler(exch[i])
     IN  /\ exch' = [exch EXCEPT ![i].stream = "ended", ![i].promise = r.promise,
                                 ![i].headers = Null, ![i].data = "", ![i].chunks = 0]
         /\ settleOrder' = NoteSettled(i, r.promise)
         /\ ready' = IF exch[i].caller = "auth" /\ r.promise.state = "fulfilled"
                     THEN TRUE ELSE ready
  /\ console' = console \o LogResponse(debug, exch[i].opts["requestid"],
                                       exch[i].headers[HTTP2_STATUS], Len(exch[i].data))
  /\ UNCHANGED <<closed, jar, requestId, uuid, debug, batch>>
  /\ UNCHANGED <<credVars, iamVars>>

\* an error handler that tears the session down with the stream
OnErrorClosesSession(i) ==
  /\ i \in 1..Len(exch)
  /\ exch[i].stream = "open"
  /\ LET p == Reject(exch[i].promise, StreamError)
     IN  /\ exch' = [exch EXCEPT ![i].stream = "failed", ![i].promise = p,
                                 ![i].headers = Null, ![i].data = "", ![i].chunks = 0]
         /\ settleOrder' = NoteSettled(i, p)
  /\ closed' = TRUE
  /\ UNCHANGED <<ready, jar, requestId, uuid, debug, console, batch>>
  /\ UNCHANGED <<credVars, iamVars>>

\* req.on('error', ...)
OnError(i) ==
  /\ i \in 1..Len(exch)
  /\ exch[i].stream = "open"
  /\ LET p == Reject(exch[i].promise, StreamError)
     IN  /\ exch' = [exch EXCEPT ![i].stream = "failed", ![i].promise = p,
                                 ![i].headers = Null, ![i].data = "", ![i].chunks = 0]
         /\ settleOrder' = NoteSettled(i, p)
  /\ UNCHANGED <<closed, ready, jar, requestId, uuid, debug, console, batch>>
  /\ UNCHANGED <<credVars, iamVars>>

\* Promise.all in place of Promise.allSettled: the first rejection ends the
\* wait, and what is returned stops there
RECURSIVE AllUntilRejected(_)
AllUntilRejected(promises) ==
  IF promises = <<>> THEN <<>>
  ELSE IF Head(promises).state = "fulfilled"
       THEN <<[status |-> "fulfilled", value |-> Head(promises).value]>>
              \o AllUntilRejected(Tail(promises))
       ELSE <<[status |-> "rejected", reason |-> Head(promises).value]>>

\* Promise.allSettled(promises), once every promise has settled
AllSettled(promises) ==
  [i \in 1..Len(promises) |->
     IF promises[i].state = "fulfilled"
     THEN [status |-> "fulfilled", value |-> promises[i].value]
     ELSE [status |-> "rejected", reason |-> promises[i].value]]

\* requests(optsArr) returns
RequestsReturn ==
  /\ batch.state = "waiting"
  /\ \A k \in 1..Len(batch.ids) : exch[batch.ids[k]].promise.state # "pending"
  /\ batch' = [batch EXCEPT !.state = "returned",
                 !.result = AllSettled([k \in 1..Len(batch.ids) |-> exch[batch.ids[k]].promise])]
  /\ UNCHANGED <<closed, ready, jar, requestId, uuid, debug, console, exch, settleOrder>>
  /\ UNCHANGED <<credVars, iamVars>>

(***************************************************************************)
(* The identity token exchange (src/iam.js).  A reply is what the https    *)
(* request ends with: the 'close' of a response with a status code and a   *)
(* body, or an 'error' of the request.  The body is held as jsonParse      *)
(* decoded it.  The expiry instant of a token reply is counted in seconds  *)
(* from the reply: it is expires_in.                                       *)
(***************************************************************************)
TokenReply(tk, ei) ==
  [kind |-> "close", statusCode |-> 200,
   body |-> [access_token |-> tk, expires_in |-> ei, expiration |-> ei]]

IamReplies ==
  { TokenReply("tok1", 3600), TokenReply("tok2", 30), TokenReply("tok2", 60),
    [kind |-> "close", statusCode |-> 400, body |-> [errorCode |-> "BXNIM0415E"]],
    [kind |-> "error", statusCode |-> 0, body |-> [code |-> "ECONNRESET"]] }

\* IAM.request: the promise the exchange settles
IamRequest(reply) ==
  IF reply.kind = "error" THEN [state |-> "rejected", value |-> reply.body]
  ELSE IF reply.statusCode >= IamFailureStatus
       THEN [state |-> "rejected", value |-> reply.body]
       ELSE [state |-> "fulfilled", value |-> reply.body]

\* a refresh at the end of the lifetime: the minute of lead is forgotten
RefreshDelayAtExpiry(expires_in) == expires_in * MsPerSecond

\* the delay iam() passes to setTimeout
RefreshDelay(expires_in) == expires_in * MsPerSecond - RefreshLeadMs

\* setTimeout(callback, delay): the milliseconds after which the timer is due
SetTimeoutDelay(delay) ==
  IF delay < TimerMinMs \/ delay > TimerMaxMs THEN TimerMinMs ELSE delay

\* the invocations of iam() that await their exchange
PendingCalls == {c \in 1..MaxCalls : calls[c].state = "pending"}

\* the invocations and timers alive
Alive == Cardinality(PendingCalls) + Cardinality(timers)

FreeCall == CHOOSE c \in 1..MaxCalls :
              /\ c \notin PendingCalls
              /\ \A d \in 1..MaxCalls : d \notin PendingCalls => c <= d

FreeHandle == CHOOSE h \in 1..MaxCalls :
                /\ \A t \in timers : t.id # h
                /\ \A g \in 1..MaxCalls : (\A t \in timers : t.id # g) => h <= g

\* iam(apiKey, autoRefresh), up to its await; a caller does not authenticate
\* a client it has disconnected
Iam(apiKey, autoRefresh) ==
  /\ ~closed
  /\ Alive < MaxCalls
  /\ calls' = [calls EXCEPT ![FreeCall] =
                 [state |-> "pending", apiKey |-> apiKey, autoRefresh |-> autoRefresh,
                  origin |-> "caller", exchange |-> Pending, value |-> Null,
                  unhandled |-> FALSE]]
  /\ UNCHANGED <<timers, lapsed, uuid, debug, console>>
  /\ UNCHANGED <<connVars, credVars, reqVars>>

\* an iam() that never moves the expiry back: it keeps the later of the
\* expiry it holds and the expiry of the response
IamBodyKeepsLaterExpiry(call, r, token, expiration) ==
  IF r.state = "rejected"
  THEN [promise |-> [state |-> "rejected", value |-> r.value],
        accessToken |-> token, accessTokenExpiration |-> expiration,
        arm |-> FALSE, delay |-> 0]
  ELSE [promise |-> [state |-> "fulfilled", value |-> Null],
        accessToken |-> r.value.access_token,
        accessTokenExpiration |-> IF expiration > r.value.expiration
                                  THEN expiration ELSE r.value.expiration,
        arm |-> call.autoRefresh,
        delay |-> IF call.autoRefresh THEN RefreshDelay(r.value.expires_in) ELSE 0]

\* an iam() that arms the refresh whatever autoRefresh says
IamBodyAlwaysArms(call, r, token, expiration) ==
  IF r.state = "rejected"
  THEN [promise |-> [state |-> "rejected", value |-> r.value],
        accessToken |-> token, accessTokenExpiration |-> expiration,
        arm |-> FALSE, delay |-> 0]
  ELSE [promise |-> [state |-> "fulfilled", value |-> Null],
        accessToken |-> r.value.access_token,
        accessTokenExpiration |-> r.value.expiration,
        arm |-> TRUE,
        delay |-> RefreshDelay(r.value.expires_in)]

\* an iam() that resets the credential before it awaits the exchange: a
\* failed exchange leaves the client without the token it had
IamBodyResetsFirst(call, r, token, expiration) ==
  IF r.state = "rejected"
  THEN [promise |-> [state |-> "rejected", value |-> r.value],
        accessToken |-> NULL, accessTokenExpiration |-> 0,
        arm |-> FALSE, delay |-> 0]
  ELSE [promise |-> [state |-> "fulfilled", value |-> Null],
        accessToken |-> r.value.access_token,
        accessTokenExpiration |-> r.value.expiration,
        arm |-> call.autoRefresh,
        delay |-> IF call.autoRefresh THEN RefreshDelay(r.value.expires_in) ELSE 0]

\* the rest of iam() once the exchange has settled as r: the promise of
\* iam(), the credential it leaves, and the timer it arms
IamBody(call, r, token, expiration) ==
  IF r.state = "rejected"
  THEN [promise |-> [state |-> "rejected", value |-> r.value],
        accessToken |-> token, accessTokenExpiration |-> expiration,
        arm |-> FALSE, delay |-> 0]
  ELSE [promise |-> [state |-> "fulfilled", value |-> Null],
        accessToken |-> r.value.access_token,
        accessTokenExpiration |-> r.value.expiration,
        arm |-> call.autoRefresh,
        delay |-> IF call.autoRefresh THEN RefreshDelay(r.value.expires_in) ELSE 0]

\* a refresh callback that catches the rejection and drops it
UnhandledNever(call, promise) == FALSE

\* the refresh callback does not handle the promise of iam(): a rejection
\* of it is an unhandled rejection
Unhandled(call, promise) == call.origin = "timer" /\ promise.state = "rejected"

\* an invocation that has returned: its frame is gone, the promise of its
\* exchange and its own promise are left
Returned(call, r, promise) ==
  [IdleCall EXCEPT !.state = promise.state,
                   !.origin = call.origin,
                   !.exchange = [state |-> r.state,
                                 value |-> IF r.state = "rejected" THEN r.value ELSE Null],
                   !.value = promise.value,
                   !.unhandled = Unhandled(call, promise)]

\* an iam() that, storing a token, also rewrites the authorization header
\* of the exchanges whose stream is open
IamSettleRestamps(c, reply) ==
  /\ c \in PendingCalls
  /\ LET r == IamRequest(reply)
         b == IamBody(calls[c], r, accessToken, accessTokenExpiration)
         h == FreeHandle
     IN  /\ accessToken' = b.accessToken
         /\ accessTokenExpiration' = b.accessTokenExpiration
         /\ timers' = IF b.arm
                      THEN timers \cup {[id |-> h, apiKey |-> calls[c].apiKey,
                                         delay |-> b.delay,
                                         after |-> SetTimeoutDelay(b.delay)]}
                      ELSE timers
         /\ refreshTimeout' = IF b.arm THEN h ELSE refreshTimeout
         /\ lapsed' = IF r.state = "fulfilled" THEN FALSE ELSE lapsed
         /\ calls' = [calls EXCEPT ![c] = Returned(calls[c], r, b.promise)]
         /\ exch' = [i \in DOMAIN exch |->
                       IF exch[i].stream = "open"
                       THEN [exch[i] EXCEPT !.opts = BearerHeader(@, b.accessToken)]
                       ELSE exch[i]]
  /\ UNCHANGED <<uuid, debug, console, closed, ready, jar, requestId, settleOrder, batch>>

\* the exchange of invocation c ends with reply, and iam() runs to its end
IamSettle(c, reply) ==
  /\ c \in PendingCalls
  /\ LET r == IamRequest(reply)
         b == IamBody(calls[c], r, accessToken, accessTokenExpiration)
         h == FreeHandle
     IN  /\ accessToken' = b.accessToken
         /\ accessTokenExpiration' = b.accessTokenExpiration
         /\ timers' = IF b.arm
                      THEN timers \cup {[id |-> h, apiKey |-> calls[c].apiKey,
                                         delay |-> b.delay,
                                         after |-> SetTimeoutDelay(b.delay)]}
                      ELSE timers
         /\ refreshTimeout' = IF b.arm THEN h ELSE refreshTimeout
         /\ lapsed' = IF r.state = "fulfilled" THEN FALSE ELSE lapsed
         /\ calls' = [calls EXCEPT ![c] = Returned(calls[c], r, b.promise)]
  /\ UNCHANGED <<uuid, debug, console>>
  /\ UNCHANGED <<connVars, reqVars>>

\* a refresh callback that does not ask for the next refresh
RefreshCallOnce(t) ==
  [state |-> "pending", apiKey |-> t.apiKey, autoRefresh |-> FALSE,
   origin |-> "timer", exchange |-> Pending, value |-> Null, unhandled |-> FALSE]

\* the invocation the refresh callback makes: this.iam(apiKey, true)
RefreshCall(t) ==
  [state |-> "pending", apiKey |-> t.apiKey, autoRefresh |-> TRUE,
   origin |-> "timer", exchange |-> Pending, value |-> Null, unhandled |-> FALSE]

\* the delay of a timer has passed: the refresh callback runs
TimerFire(t) ==
  /\ t \in timers
  /\ timers' = timers \ {t}
  /\ calls' = [calls EXCEPT ![FreeCall] = RefreshCall(t)]
  /\ UNCHANGED <<lapsed, uuid, debug, console>>
  /\ UNCHANGED <<connVars, credVars, reqVars>>

\* the expiry instant of the token the client holds passes
Expire ==
  /\ accessToken # NULL
  /\ ~lapsed
  /\ lapsed' = TRUE
  /\ UNCHANGED <<calls, timers, uuid, debug, console>>
  /\ UNCHANGED <<connVars, credVars, reqVars>>

\* the fields of the client that disconnect() reads or writes, and whether
\* the call threw
ClientState ==
  [closed |-> closed, accessToken |-> accessToken,
   accessTokenExpiration |-> accessTokenExpiration,
   refreshTimeout |-> refreshTimeout, timers |-> timers, threw |-> FALSE]

\* a close() that refuses a session it has closed already
SessionCloseThrowsWhenClosed(isClosed) == [closed |-> TRUE, threw |-> isClosed]

\* this.client.close(): the session is closed; on a closed session it
\* returns at once
SessionClose(isClosed) == [closed |-> TRUE, threw |-> FALSE]

\* disconnect() on a client in state s
DisconnectOn(s) ==
  IF SessionClose(s.closed).threw
  THEN [s EXCEPT !.threw = TRUE]
  ELSE [s EXCEPT !.closed = SessionClose(s.closed).closed,
                 !.timers = IF s.refreshTimeout # 0
                            THEN {t \in s.timers : t.id # s.refreshTimeout}
                            ELSE s.timers,
                 !.refreshTimeout = 0,
                 !.threw = FALSE]

\* disconnect()
Disconnect ==
  /\ closed' = DisconnectOn(ClientState).closed
  /\ timers' = DisconnectOn(ClientState).timers
  /\ refreshTimeout' = DisconnectOn(ClientState).refreshTimeout
  /\ accessToken' = DisconnectOn(ClientState).accessToken
  /\ accessTokenExpiration' = DisconnectOn(ClientState).accessTokenExpiration
  /\ UNCHANGED <<calls, lapsed, uuid, debug, console>>
  /\ UNCHANGED <<reqVars>>

(***************************************************************************)
(* The specification.                                                      *)
(***************************************************************************)
Names == {"alice"}
Passwords == {"secret"}
BatchSizes == 1..MaxRequests
OptsArrays == UNION {[1..n -> Descs] : n \in BatchSizes}

Next ==
  \/ \E desc \in Descs : Request(desc)
  \/ \E name \in Names, password \in Passwords : Auth(name, password)
  \/ \E optsArr \in OptsArrays : Requests(optsArr)
  \/ \E i \in 1..MaxRequests, h \in ResponseHeaders : OnResponse(i, h)
  \/ \E i \in 1..MaxRequests, chunk \in Chunks : OnData(i, chunk)
  \/ \E i \in 1..MaxRequests : OnEnd(i)
  \/ \E i \in 1..MaxRequests : OnError(i)
  \/ RequestsReturn
  \/ \E apiKey \in ApiKeys, autoRefresh \in BOOLEAN : Iam(apiKey, autoRefresh)
  \/ \E c \in 1..MaxCalls, reply \in IamReplies : IamSettle(c, reply)
  \/ \E t \in timers : TimerFire(t)
  \/ Expire
  \/ Disconnect

Spec == Init /\ [][Next]_vars

\* the client used for its exchanges only
NextExchange ==
  \/ \E desc \in Descs : Request(desc)
  \/ \E optsArr \in OptsArrays : Requests(optsArr)
  \/ \E i \in 1..MaxRequests, h \in ResponseHeaders : OnResponse(i, h)
  \/ \E i \in 1..MaxRequests, chunk \in Chunks : OnData(i, chunk)
  \/ \E i \in 1..MaxRequests : OnEnd(i)
  \/ \E i \in 1..MaxRequests : OnError(i)
  \/ RequestsReturn

SpecExchange == Init /\ [][NextExchange]_vars

\* the client used for its bearer-token life cycle only
NextCredential ==
  \/ \E desc \in {DescAllDbs} : Request(desc)
  \/ \E apiKey \in {"key1"}, autoRefresh \in BOOLEAN : Iam(apiKey, autoRefresh)
  \/ \E c \in 1..MaxCalls, reply \in IamReplies : IamSettle(c, reply)
  \/ \E t \in timers : TimerFire(t)
  \/ Expire
  \/ Disconnect

SpecCredential == Init /\ [][NextCredential]_vars

\* the bodies and the token replies of the session servers
SessionChunks == {"{}"}
SessionIamReplies ==
  { TokenReply("tok1", 3600),
    [kind |-> "close", statusCode |-> 400, body |-> [errorCode |-> "BXNIM0415E"]] }

\* sessions: password and API-key authentication, and requests under them
NextSession ==
  \/ \E desc \in {DescAllDbs} : Request(desc)
  \/ \E name \in Names, password \in Passwords : Auth(name, password)
  \/ \E i \in 1..MaxRequests, h \in SessionResponseHeaders : OnResponse(i, h)
  \/ \E i \in 1..MaxRequests, chunk \in SessionChunks : OnData(i, chunk)
  \/ \E i \in 1..MaxRequests : OnEnd(i)
  \/ \E i \in 1..MaxRequests : OnError(i)
  \/ \E apiKey \in {"key1"} : Iam(apiKey, FALSE)
  \/ \E c \in 1..MaxCalls, reply \in SessionIamReplies : IamSettle(c, reply)

SpecSession == Init /\ [][NextSession]_vars

\* the token replies of a server that rotates its tokens
RotatingIamReplies ==
  { TokenReply("tok1", 3600), TokenReply("tok2", 60),
    [kind |-> "error", statusCode |-> 0, body |-> [code |-> "ECONNRESET"]] }

\* requests in flight while the bearer token is obtained and replaced
NextRotate ==
  \/ \E desc \in {DescAllDbs} : Request(desc)
  \/ \E i \in 1..MaxRequests, h \in SessionResponseHeaders : OnResponse(i, h)
  \/ \E i \in 1..MaxRequests, chunk \in SessionChunks : OnData(i, chunk)
  \/ \E i \in 1..MaxRequests : OnEnd(i)
  \/ \E i \in 1..MaxRequests : OnError(i)
  \/ \E apiKey \in {"key1"} : Iam(apiKey, FALSE)
  \/ \E c \in 1..MaxCalls, reply \in RotatingIamReplies : IamSettle(c, reply)

SpecRotate == Init /\ [][NextRotate]_vars

\* process.env.DEBUG is set or cleared: logRequest and logResponse read it
\* at every call
SetDebug(on) ==
  /\ debug # on
  /\ debug' = on
  /\ UNCHANGED <<closed, ready, jar, requestId, uuid, exch, settleOrder, batch, console>>
  /\ UNCHANGED <<credVars, iamVars>>

\* requests and their responses with the debug toggle set and cleared
NextDebug ==
  \/ \E desc \in {DescAllDbs, DescPost} : Request(desc)
  \/ \E i \in 1..MaxRequests, h \in SessionResponseHeaders : OnResponse(i, h)
  \/ \E i \in 1..MaxRequests, chunk \in SessionChunks : OnData(i, chunk)
  \/ \E i \in 1..MaxRequests : OnEnd(i)
  \/ \E i \in 1..MaxRequests : OnError(i)
  \/ \E on \in BOOLEAN : SetDebug(on)

SpecDebug == Init /\ [][NextDebug]_vars

\* teardown with exchanges in flight: the transport delivers the response
\* of every open stream and then its end, unless an error ends it first
NextTeardown ==
  \/ \E desc \in {DescAllDbs} : Request(desc)
  \/ \E i \in 1..MaxRequests, h \in ResponseHeaders : OnResponse(i, h)
  \/ \E i \in 1..MaxRequests, chunk \in Chunks : OnData(i, chunk)
  \/ \E i \in 1..MaxRequests : OnEnd(i)
  \/ \E i \in 1..MaxRequests : OnError(i)
  \/ Disconnect

SpecTeardown ==
  /\ Init
  /\ [][NextTeardown]_vars
  /\ \A i \in 1..MaxRequests : WF_vars(\E h \in ResponseHeaders : OnResponse(i, h))
  /\ \A i \in 1..MaxRequests : WF_vars(OnEnd(i))

\* normalisation: request() on every shape of description
NextNormalize == \E desc \in ShapeDescs : Request(desc)

SpecNormalize == Init /\ [][NextNormalize]_vars

\* the refresh loop: the delay of an armed timer passes, and a token exchange
\* ends, with a response or with an error
NextRefresh ==
  \/ \E apiKey \in ApiKeys, autoRefresh \in BOOLEAN : Iam(apiKey, autoRefresh)
  \/ \E c \in 1..MaxCalls, reply \in IamReplies : IamSettle(c, reply)
  \/ \E t \in timers : TimerFire(t)
  \/ Disconnect

SpecRefresh ==
  /\ Init
  /\ [][NextRefresh]_vars
  /\ WF_vars(\E t \in timers : TimerFire(t))
  /\ \A c \in 1..MaxCalls : WF_vars(\E reply \in IamReplies : IamSettle(c, reply))

(***************************************************************************)
(* The exchange engine.                                                    *)
(***************************************************************************)
Issued == 1..Len(exch)

\* exchange i completes in this step: its 'end' handler delivers an outcome
Completes(i) ==
  /\ exch[i].stream = "open"
  /\ exch'[i].stream = "ended"
  /\ exch'[i].promise.state # "pending"

WireShape(desc) ==
  LET o == Normalize(desc, <<>>, NULL, "", 0).opts
  IN  <<o[HTTP2_METHOD], o[HTTP2_PATH]>>

\* C2: what requests() returns has one settled outcome for each description
\* it was given, at the index of that description, whatever the order in
\* which the exchanges settled; and the step that rejects one exchange
\* leaves every other exchange as it was.
C2_OneOutcomePerInput ==
  /\ [](batch.state = "returned" =>
          /\ Len(batch.result) = Len(batch.optsArr)
          /\ \A k \in 1..Len(batch.optsArr) :
               LET e == exch[batch.ids[k]]
                   r == batch.result[k]
               IN  /\ WireShape(batch.optsArr[k]) = <<e.opts[HTTP2_METHOD], e.opts[HTTP2_PATH]>>
                   /\ r.status = e.promise.state
                   /\ r.status \in {"fulfilled", "rejected"}
                   /\ r.status = "fulfilled" => r.value = e.promise.value
                   /\ r.status = "rejected" => r.reason = e.promise.value)
  /\ [][\A i, j \in Issued :
          /\ i # j
          /\ exch[i].promise.state = "pending"
          /\ exch'[i].promise.state = "rejected"
          => exch'[j] = exch[j]]_vars

\* the first exchange of the fan-out failed, the second succeeded, and the
\* second settled before the first
C2_Witness ==
  /\ batch.state = "returned"
  /\ Len(batch.result) = 2
  /\ batch.result[1].status = "rejected"
  /\ batch.result[2].status = "fulfilled"
  /\ \E a, b \in 1..Len(settleOrder) :
       a < b /\ settleOrder[a] = batch.ids[2] /\ settleOrder[b] = batch.ids[1]

\* C5: when the stream of a response with the JSON content-type ends on a
\* body that is not valid JSON, the exchange settles, and the data of its
\* outcome is the raw text of the body.
C5_ParseFailureFallsBackToText ==
  [][\A i \in Issued :
       /\ exch[i].stream = "open"
       /\ exch'[i].stream = "ended"
       /\ exch[i].headers[HTTP2_CONTENT_TYPE] = MIME_JSON
       /\ ~JsonParse(exch[i].data).ok
       => /\ exch'[i].promise.state # "pending"
          /\ exch'[i].promise.value.data = Str(exch[i].data)]_vars

(***************************************************************************)
(* The bearer-token life cycle.                                            *)
(***************************************************************************)
Slots == 1..MaxCalls

\* a refresh fires in this step: the callback of a timer invokes iam()
RefreshFires ==
  \E c \in Slots :
    /\ calls[c].state # "pending"
    /\ calls'[c].state = "pending"
    /\ calls'[c].origin = "timer"

\* the exchange of invocation c fails in this step
ExchangeFails(c) ==
  /\ calls[c].state = "pending"
  /\ calls'[c].exchange.state = "rejected"

\* the timers armed in this step
Armed == {t \in timers' : \A u \in timers : u.id # t.id}

\* C3: once disconnect() has been called no refresh fires.
C3_NoRefreshAfterDisconnect == [][closed => ~RefreshFires]_vars

\* C4: a request carries an Authorization header only if, at the moment it
\* is issued, the client holds a bearer token whose expiry instant has not
\* passed.
C4_BearerOnlyIfNotExpired ==
  [][\A i \in (Len(exch) + 1)..Len(exch') :
       "authorization" \in DOMAIN exch'[i].opts => accessToken # NULL /\ ~lapsed]_vars

\* C6: when the token exchange of an iam() a caller invoked fails, the
\* promise of iam() is rejected with the error of the exchange, and the
\* access token, its expiry and the refresh timer stay as they were.
C6_FailedAuthLeavesCredential ==
  [][\A c \in Slots :
       ExchangeFails(c) /\ calls[c].origin = "caller" =>
         /\ calls'[c].state = "rejected"
         /\ calls'[c].value = calls'[c].exchange.value
         /\ ~calls'[c].unhandled
         /\ accessToken' = accessToken
         /\ accessTokenExpiration' = accessTokenExpiration
         /\ refreshTimeout' = refreshTimeout
         /\ timers' = timers]_vars

\* an iam() of a caller was rejected, and the client still holds the token,
\* the expiry and the armed timer of an earlier one
C6_Witness ==
  \E c \in Slots :
    /\ calls[c].state = "rejected" /\ calls[c].origin = "caller"
    /\ calls[c].value = [errorCode |-> "BXNIM0415E"]
    /\ accessToken = "tok1" /\ accessTokenExpiration = 3600
    /\ \E t \in timers : t.id = refreshTimeout

\* C7: when the token exchange of a refresh fails, the rejection reaches no
\* handler and is reported as an unhandled rejection, the firing arms no
\* timer, and the access token and its expiry stay as they were.
C7_FailedRefreshIsReported ==
  [][\A c \in Slots :
       ExchangeFails(c) /\ calls[c].origin = "timer" =>
         /\ calls'[c].state = "rejected"
         /\ calls'[c].unhandled
         /\ Armed = {}
         /\ timers' = timers
         /\ refreshTimeout' = refreshTimeout
         /\ accessToken' = accessToken
         /\ accessTokenExpiration' = accessTokenExpiration]_vars

\* a refresh failed: it was reported, no timer is armed, the token is kept
C7_Witness ==
  \E c \in Slots :
    /\ calls[c].state = "rejected" /\ calls[c].origin = "timer" /\ calls[c].unhandled
    /\ timers = {}
    /\ PendingCalls = {}
    /\ accessToken = "tok1" /\ accessTokenExpiration = 3600

\* a refresh awaits its token exchange
RefreshPending == \E c \in Slots : calls[c].state = "pending" /\ calls[c].origin = "timer"

\* the token exchange of a refresh has failed
RefreshFailed == \E c \in Slots : calls[c].state = "rejected" /\ calls[c].origin = "timer"

\* the token exchange of the refresh of invocation c succeeds in this step
RefreshSucceeds(c) ==
  /\ calls[c].state = "pending"
  /\ calls[c].origin = "timer"
  /\ calls'[c].state = "fulfilled"

\* C8: a refresh firing invokes iam() with the API key of the timer and
\* autoRefresh true; a refresh whose exchange succeeds replaces the
\* credential and arms the next timer under the same key; and unless an
\* exchange of a refresh fails or disconnect() is called, an armed timer
\* leads to a refresh and a refresh leads to the next firing.
C8_RefreshLoop ==
  /\ [][\A c \in Slots :
          /\ calls[c].state # "pending" /\ calls'[c].state = "pending"
             /\ calls'[c].origin = "timer" =>
               \E t \in timers : /\ t \notin timers'
                                 /\ calls'[c].apiKey = t.apiKey
                                 /\ calls'[c].autoRefresh
          /\ RefreshSucceeds(c) =>
               /\ \E r \in IamReplies : /\ IamRequest(r).state = "fulfilled"
                                        /\ accessToken' = r.body.access_token
                                        /\ accessTokenExpiration' = r.body.expiration
               /\ lapsed' = FALSE
               /\ \E t \in Armed : /\ t.id = refreshTimeout'
                                   /\ t.apiKey = calls[c].apiKey]_vars
  /\ (timers # {}) ~> (RefreshPending \/ closed)
  /\ RefreshPending ~> (timers # {} \/ RefreshFailed)
  /\ <>(timers # {}) => ([]<><<RefreshFires>>_vars \/ <>closed \/ <>RefreshFailed)

\* a refresh has succeeded on a client that is not disconnected: the token
\* is replaced and the next timer is armed
C8_Witness ==
  /\ ~closed
  /\ \E c \in Slots : calls[c].state = "fulfilled" /\ calls[c].origin = "timer"
  /\ \E t \in timers : t.id = refreshTimeout
  /\ accessToken # NULL

\* the token replies whose token and expiry the client holds after this step
HeldReplies ==
  {r \in IamReplies :
     /\ IamRequest(r).state = "fulfilled"
     /\ r.body.access_token = accessToken'
     /\ r.body.expiration = accessTokenExpiration'}

C10_DelayNeverNegative == \A t \in timers : t.delay >= 0

(***************************************************************************)
(* disconnect().                                                           *)
(***************************************************************************)
\* C11: a second disconnect() leaves the connection state, the credential
\* and the refresh timer as the first one left them, and does not throw.
C11_DisconnectIdempotent ==
  /\ DisconnectOn(DisconnectOn(ClientState)) = DisconnectOn(ClientState)
  /\ ~DisconnectOn(DisconnectOn(ClientState)).threw

\* disconnect() has run on a client that held a token and an armed timer;
\* a second call finds nothing to close and nothing to clear
C11_Witness ==
  /\ closed /\ refreshTimeout = 0 /\ timers = {}
  /\ accessToken = "tok1"
  /\ DisconnectOn(ClientState) = ClientState

(***************************************************************************)
(* Cookies and sessions.                                                   *)
(***************************************************************************)
\* the Set-Cookie values of response headers h
SetCookies(h) ==
  IF h # Null /\ HTTP2_SET_COOKIE \in DOMAIN h THEN h[HTTP2_SET_COOKIE] ELSE <<>>

\* the name=value pairs the response headers h set
PairsOf(h) == {CookiePair(SetCookies(h)[k]) : k \in 1..Len(SetCookies(h))}

\* the jar j holds the pair
InJar(j, pair) == \E k \in 1..Len(j) : j[k] = pair

\* the Cookie header value carries the pair
HasCookie(header, pair) ==
  \E a \in 1..Len(header) :
    /\ a + Len(pair) - 1 <= Len(header)
    /\ SubSeq(header, a, a + Len(pair) - 1) = pair

\* the outcome of exchange i is delivered in this step
Settles(i) == exch[i].promise.state = "pending" /\ exch'[i].promise.state # "pending"

\* the response headers exchange i was settled with, Null if it has none
SettledHeaders(i) ==
  IF exch[i].promise.state # "pending" /\ "headers" \in DOMAIN exch[i].promise.value
  THEN exch[i].promise.value.headers
  ELSE Null

\* the exchanges issued in this step
IssuedNow == (Len(exch) + 1)..Len(exch')

\* C12: when the outcome of an exchange is delivered the jar holds every
\* cookie its response headers set, for a success and for a failure alike;
\* the jar loses no cookie; and a request issued after an exchange has
\* settled carries the cookies of that exchange.
C12_CookiesReadAfterWrite ==
  [][/\ \A i \in Issued : Settles(i) =>
          \A pair \in PairsOf(exch[i].headers) : InJar(jar, pair) /\ InJar(jar', pair)
     /\ \A k \in 1..Len(jar) : InJar(jar', jar[k])
     /\ \A n \in IssuedNow : \A i \in Issued : \A pair \in PairsOf(SettledHeaders(i)) :
          /\ "cookie" \in DOMAIN exch'[n].opts
          /\ HasCookie(exch'[n].opts["cookie"], pair)]_vars

\* an exchange failed with 401 and a cookie, and the request issued after
\* it carries that cookie
C12_Witness ==
  /\ Len(exch) = 2
  /\ exch[1].promise.state = "rejected"
  /\ SettledHeaders(1) # Null
  /\ SettledHeaders(1)[HTTP2_STATUS] = 401
  /\ PairsOf(SettledHeaders(1)) = {"Flash=denied"}
  /\ "cookie" \in DOMAIN exch[2].opts
  /\ exch[2].opts["cookie"] = "Flash=denied"

\* auth() has completed: its exchange was fulfilled
AuthCompleted(i) == exch[i].caller = "auth" /\ exch[i].promise.state = "fulfilled"

\* no call of iam() has been made on the client
NoApiKeyAuth == \A c \in Slots : calls[c].state = "idle"

\* this step is a step of auth(): it issues or advances the exchange of one
AuthStep ==
  \/ \E n \in IssuedNow : exch'[n].caller = "auth"
  \/ \E i \in Issued : exch[i].caller = "auth" /\ exch'[i] # exch[i]

\* C13: a request issued after auth() completed with a session cookie
\* carries that cookie, and carries no Authorization header when iam() was
\* never called; and no step of auth() changes the access token, its expiry
\* or the refresh timer.
C13_PasswordSession ==
  [][/\ \A n \in IssuedNow : \A i \in Issued :
          AuthCompleted(i) /\ PairsOf(SettledHeaders(i)) # {} =>
            /\ "cookie" \in DOMAIN exch'[n].opts
            /\ \A pair \in PairsOf(SettledHeaders(i)) :
                 HasCookie(exch'[n].opts["cookie"], pair)
            /\ NoApiKeyAuth => "authorization" \notin DOMAIN exch'[n].opts
     /\ AuthStep => /\ accessToken' = accessToken
                    /\ accessTokenExpiration' = accessTokenExpiration
                    /\ refreshTimeout' = refreshTimeout
                    /\ timers' = timers]_vars

\* auth() completed with AuthSession=xyz on a client that never called
\* iam(), and the request after it carries the cookie and no Authorization
C13_Witness ==
  /\ Len(exch) = 2
  /\ AuthCompleted(1)
  /\ PairsOf(SettledHeaders(1)) = {"AuthSession=xyz"}
  /\ ready
  /\ NoApiKeyAuth
  /\ exch[2].caller = "request"
  /\ exch[2].opts[HTTP2_PATH] = "/_all_dbs?limit=5"
  /\ "cookie" \in DOMAIN exch[2].opts
  /\ exch[2].opts["cookie"] = "AuthSession=xyz"
  /\ "authorization" \notin DOMAIN exch[2].opts

\* an iam() of a caller succeeds in this step
CallerAuthSucceeds ==
  \E c \in Slots : /\ calls[c].state = "pending" /\ calls[c].origin = "caller"
                   /\ calls'[c].state = "fulfilled"

\* C14: on a client whose iam() calls all pass autoRefresh false, no timer
\* is ever scheduled and no refresh ever runs; every request issued while a
\* token T is held carries Authorization: Bearer T; and the token changes
\* only when an iam() a caller invoked succeeds.
C14_ApiKeyWithoutRefresh ==
  /\ [](/\ timers = {}
        /\ refreshTimeout = 0
        /\ \A c \in Slots : calls[c].origin # "timer")
  /\ [][/\ \A n \in IssuedNow : accessToken # NULL =>
             /\ "authorization" \in DOMAIN exch'[n].opts
             /\ exch'[n].opts["authorization"] = "Bearer " \o accessToken
        /\ accessToken' # accessToken \/ accessTokenExpiration' # accessTokenExpiration
             => CallerAuthSucceeds]_vars

\* iam('key1', false) succeeded with tok1, no timer is armed, and the
\* request issued after it carries Bearer tok1
C14_Witness ==
  /\ \E c \in Slots : calls[c].state = "fulfilled" /\ calls[c].origin = "caller"
  /\ accessToken = "tok1"
  /\ timers = {} /\ refreshTimeout = 0
  /\ \E n \in Issued : /\ exch[n].caller = "request"
                       /\ "authorization" \in DOMAIN exch[n].opts
                       /\ exch[n].opts["authorization"] = "Bearer tok1"

\* C15: disconnect() leaves the client without a bearer token, and a
\* request issued after disconnect() carries no Authorization header.
C15_UnauthenticatedAfterDisconnect ==
  [][/\ ~closed /\ closed' => accessToken' = NULL
     /\ \A n \in IssuedNow : closed => "authorization" \notin DOMAIN exch'[n].opts]_vars

(***************************************************************************)
(* Transport errors and teardown.                                          *)
(***************************************************************************)
\* the stream of exchange i fails in this step
StreamFails(i) == exch[i].stream = "open" /\ exch'[i].stream = "failed"

\* C16: a stream error rejects the promise of its exchange with the error,
\* opens no stream in its place, leaves the session open or closed as it
\* was, and leaves every other exchange, the jar and a waiting requests()
\* as they were.
C16_StreamErrorIsLocal ==
  [][\A i \in Issued : StreamFails(i) =>
       /\ exch[i].promise.state = "pending"
       /\ exch'[i].promise = [state |-> "rejected", value |-> StreamError]
       /\ Len(exch') = Len(exch)
       /\ requestId' = requestId
       /\ closed' = closed
       /\ jar' = jar
       /\ batch' = batch
       /\ \A j \in Issued : j # i => exch'[j] = exch[j]]_vars

\* the stream of the first of two exchanges in flight failed, and the
\* second was then fulfilled by its own response
C16_Witness ==
  /\ Len(exch) = 2
  /\ exch[1].stream = "failed"
  /\ exch[1].promise = [state |-> "rejected", value |-> StreamError]
  /\ exch[2].stream = "ended"
  /\ exch[2].promise.state = "fulfilled"
  /\ exch[2].promise.value.statusCode = 200
  /\ settleOrder = <<1, 2>>
  /\ ~closed

\* C17: an exchange that is in flight when the client is disconnected still
\* delivers its outcome, a completion or a transport error, to its caller.
C17_InFlightSurvivesDisconnect ==
  \A i \in 1..MaxRequests :
    (closed /\ i \in Issued /\ exch[i].stream = "open")
      ~> (i \in Issued /\ exch[i].promise.state # "pending")

(***************************************************************************)
(* Normalisation.                                                          *)
(***************************************************************************)
\* the description exchange i was issued for, as an object
DescOf(i) == IF exch[i].desc = Null THEN EmptyObject ELSE exch[i].desc

\* C18: the method of every wire request is uppercase and its path begins
\* with '/'.
C18_UppercaseMethodSlashPath ==
  \A i \in Issued :
    /\ exch[i].opts[HTTP2_METHOD] = ToUpperCase(exch[i].opts[HTTP2_METHOD])
    /\ CharAt(exch[i].opts[HTTP2_PATH], 1) = "/"

\* the body bytes the claim asks for, for a description d sent under the
\* content type ct
ExpectedBody(d, ct) ==
  IF "body" \notin DOMAIN d THEN <<>>
  ELSE IF d["body"].t = "object"
       THEN IF ct = MIME_FORM_ENCODED
            THEN <<QuerystringStringify(d["body"].o)>>
            ELSE <<JsonStringify(d["body"].o)>>
       ELSE IF d["body"].s = "" THEN <<>> ELSE <<d["body"].s>>

\* C19: an object body is written as JSON under the JSON content type and
\* form-encoded under the form content type, a string body is written as
\* it is, and without a body nothing is written.
C19_BodyEncodedByContentType ==
  \A i \in Issued :
    exch[i].stream # "none" =>
      exch[i].written = ExpectedBody(DescOf(i), exch[i].opts[HTTP2_CONTENT_TYPE])

\* C20: the headers object request() leaves, passed through request()
\* again, gives the same wire method and the same wire path.
C20_NormalizeIdempotent ==
  \A i \in Issued :
    /\ Normalize(exch[i].opts, jar, accessToken, uuid, requestId).opts[HTTP2_METHOD]
         = exch[i].opts[HTTP2_METHOD]
    /\ Normalize(exch[i].opts, jar, accessToken, uuid, requestId).opts[HTTP2_PATH]
         = exch[i].opts[HTTP2_PATH]

\* request() was called with a lower-case method and a query string, and a
\* second normalisation of what it left keeps GET and the path with its
\* query string
C20_Witness ==
  \E i \in Issued :
    /\ exch[i].desc = DescAllDbs
    /\ exch[i].opts[HTTP2_METHOD] = "GET"
    /\ exch[i].opts[HTTP2_PATH] = "/_all_dbs?limit=5"
    /\ "qs" \notin DOMAIN exch[i].opts
    /\ Normalize(exch[i].opts, jar, accessToken, uuid, requestId).opts[HTTP2_PATH]
         = "/_all_dbs?limit=5"

(***************************************************************************)
(* Request identifiers.                                                    *)
(***************************************************************************)
\* C21: the k-th request a client issues, through request() or requests(),
\* carries the identifier made of the tag of the client and the counter k;
\* identifiers are pairwise distinct; the counter is one more than the
\* number of requests issued, and every issue step moves it by the number
\* of requests it issues.
C21_RequestIdsCountUp ==
  /\ [](/\ requestId = Len(exch) + 1
        /\ \A i \in Issued : exch[i].opts["requestid"] = uuid \o NumberToString(i)
        /\ \A i, j \in Issued : i # j => exch[i].opts["requestid"] # exch[j].opts["requestid"])
  /\ [][/\ requestId' = requestId + (Len(exch') - Len(exch))
        /\ uuid' = uuid
        /\ \A i \in Issued : exch'[i].opts["requestid"] = exch[i].opts["requestid"]]_vars

\* a single request and then a fan-out were issued: the identifiers are the
\* tag with 1 and the tag with 2
C21_Witness ==
  /\ Len(exch) = 2
  /\ exch[1].caller = "request"
  /\ exch[2].caller = "requests"
  /\ exch[1].opts["requestid"] = "33a392f21"
  /\ exch[2].opts["requestid"] = "33a392f22"
  /\ requestId = 3

(***************************************************************************)
(* Races on the credential.                                                *)
(***************************************************************************)
\* the token and expiry pairs the token replies carry
ReplyPairs ==
  {<<r.body.access_token, r.body.expiration>> :
     r \in {x \in IamReplies : IamRequest(x).state = "fulfilled"}}

\* an iam() succeeds in this step
AuthSucceeds == \E c \in Slots : calls[c].state = "pending" /\ calls'[c].state = "fulfilled"

C23_AtMostOneTimer ==
  /\ Cardinality(timers) <= 1
  /\ \A t \in timers : t.id = refreshTimeout

(***************************************************************************)
(* Requests in flight while the credential or the jar changes.             *)
(***************************************************************************)
\* C24: a request carries the bearer token the client holds at the moment
\* it is issued, and none if the client holds none; the headers of an
\* issued exchange never change; and a step that changes the token held
\* leaves every exchange, its stream, its data and its outcome, as it was.
C24_TokenOfIssueTime ==
  [][/\ \A n \in IssuedNow :
          IF accessToken = NULL
          THEN "authorization" \notin DOMAIN exch'[n].opts
          ELSE /\ "authorization" \in DOMAIN exch'[n].opts
               /\ exch'[n].opts["authorization"] = "Bearer " \o accessToken
     /\ \A i \in Issued : exch'[i].opts = exch[i].opts
     /\ accessToken' # accessToken => exch' = exch /\ settleOrder' = settleOrder]_vars

\* a request issued under the first token is still in flight when the
\* second token is stored; the request issued next carries the second token
C24_Witness ==
  /\ Len(exch) = 2
  /\ accessToken = "tok2"
  /\ exch[1].stream = "open"
  /\ "authorization" \in DOMAIN exch[1].opts
  /\ exch[1].opts["authorization"] = "Bearer tok1"
  /\ "authorization" \in DOMAIN exch[2].opts
  /\ exch[2].opts["authorization"] = "Bearer tok2"

\* the Cookie header of the exchange e, "" if it carries none
CookieOf(e) == IF "cookie" \in DOMAIN e.opts THEN e.opts["cookie"] ELSE ""

\* exchange i is in flight and its response headers have not arrived
AwaitsResponse(i) == exch[i].stream = "open" /\ exch[i].headers = Null

\* C25: a request carries the cookies the jar holds at the moment it is
\* issued; a request issued while every exchange issued before it is in
\* flight without its response headers carries the same cookies as they; and
\* the Cookie header of an issued exchange never changes, whatever cookies
\* the responses set afterwards.
C25_CookiesOfIssueTime ==
  [][/\ \A n \in IssuedNow :
          /\ CookieOf(exch'[n]) = GetCookieString(jar)
          /\ ("cookie" \in DOMAIN exch'[n].opts) = (GetCookieString(jar) # "")
          /\ (\A i \in Issued : AwaitsResponse(i)) =>
               \A i \in Issued : CookieOf(exch'[n]) = CookieOf(exch[i])
     /\ \A i \in Issued :
          /\ CookieOf(exch'[i]) = CookieOf(exch[i])
          /\ ("cookie" \in DOMAIN exch'[i].opts) = ("cookie" \in DOMAIN exch[i].opts)]_vars

\* two requests were issued before any response; the response to the first
\* has set a cookie, the jar holds it, and the second request, still in
\* flight, carries no cookie
C25_Witness ==
  /\ Len(exch) = 2
  /\ exch[1].headers # Null
  /\ PairsOf(exch[1].headers) = {"AuthSession=xyz"}
  /\ InJar(jar, "AuthSession=xyz")
  /\ exch[2].stream = "open"
  /\ exch[2].headers = Null
  /\ "cookie" \notin DOMAIN exch[1].opts
  /\ "cookie" \notin DOMAIN exch[2].opts

(***************************************************************************)
(* The description the caller passes.                                      *)
(***************************************************************************)
\* the object the caller passed for exchange i, as request() leaves it:
\* request() works on the object it is given and makes no copy, so the
\* object handed to the session is the caller's
CallerObject(i) == exch[i].opts

\* the wire request a normalisation n gives, its identifier left out
WireOf(n) == [opts |-> DeleteKey(n.opts, "requestid"), body |-> n.body]

\* C26: after request() the object the caller passed has the fields it had
\* and no other, and passed to request() again it gives the wire request it
\* gave, the request identifier apart.
C26_DescriptionUnchanged ==
  \A i \in Issued :
    exch[i].desc # Null =>
      /\ CallerObject(i) = exch[i].desc
      /\ WireOf(Normalize(CallerObject(i), jar, accessToken, uuid, requestId))
           = WireOf(Normalize(exch[i].desc, jar, accessToken, uuid, requestId))

(***************************************************************************)
(* One outcome per exchange.                                               *)
(***************************************************************************)
\* the stream of exchange i has signalled its end or an error
StreamOver(i) == exch[i].stream \in {"ended", "failed"}

\* an outcome is delivered at most once: a settled promise keeps its state
\* and its value, and no exchange is noted twice in the order of delivery
AtMostOneOutcome ==
  /\ [][\A i \in Issued : exch[i].promise.state # "pending" =>
          exch'[i].promise = exch[i].promise]_vars
  /\ [](\A a, b \in 1..Len(settleOrder) : a # b => settleOrder[a] # settleOrder[b])

\* C27: every exchange gets exactly one outcome: a delivered outcome is
\* never replaced or delivered again, and once the stream of an exchange
\* has signalled its end or an error its outcome has been delivered.
C27_SettlesExactlyOnce ==
  /\ AtMostOneOutcome
  /\ [](\A i \in Issued : StreamOver(i) => exch[i].promise.state # "pending")

(***************************************************************************)
(* Debug logging.                                                          *)
(***************************************************************************)
\* the state of the client and of its exchanges, the console left out
Observable ==
  <<closed, ready, jar, accessToken, accessTokenExpiration, refreshTimeout, requestId,
    uuid, exch, settleOrder, batch>>

\* the exchange request() makes of exchange n's description in this state
\* when the toggle is dbg
IssuedUnder(n, dbg) ==
  NewExchange(exch'[n].caller, exch'[n].desc, jar, accessToken, uuid,
              requestId + (n - Len(exch) - 1), closed, dbg)

\* C28: the toggle changes what is written to the console and nothing else:
\* a request issued with the toggle on or off is the request the client
\* issues with the toggle off, headers, identifier and body alike; the
\* counter advances by the number of requests issued; an exchange that ends
\* gets the outcome its end handler computes from its response alone; a
\* step that writes to the console or moves the toggle changes the jar and
\* the credential no more than it does with the toggle off; and nothing is
\* written while the toggle is off.
C28_LoggingObservational ==
  [][/\ \A n \in IssuedNow :
          /\ exch'[n] = IssuedUnder(n, FALSE)
          /\ IssuedUnder(n, TRUE) = IssuedUnder(n, FALSE)
     /\ requestId' = requestId + (Len(exch') - Len(exch))
     /\ \A i \in Issued :
          exch[i].stream = "open" /\ exch'[i].stream = "ended" =>
            exch'[i].promise = EndHandler(exch[i]).promise
     /\ debug' # debug => Observable' = Observable /\ console' = console
     /\ console' # console =>
          /\ debug
          /\ jar' = jar
          /\ <<accessToken, accessTokenExpiration, refreshTimeout>>'
               = <<accessToken, accessTokenExpiration, refreshTimeout>>
     /\ ~debug => console' = console]_vars

\* with the toggle on a request that carries a cookie went out and was
\* answered: both lines are on the console, the request has its cookie and
\* its outcome
C28_Witness ==
  /\ debug
  /\ Len(exch) = 2
  /\ "cookie" \in DOMAIN exch[2].opts
  /\ exch[2].opts["cookie"] = "AuthSession=xyz"
  /\ exch[2].promise.state = "fulfilled"
  /\ \E a, b \in 1..Len(console) :
       /\ a < b
       /\ console[a] = "33a392f22 GET /_all_dbs?limit=5 COOKIE"
       /\ console[b] = "33a392f22 200 2"

====
